---- MODULE Spec2Model ----
(***************************************************************************)
(* Model of src/traffic_map.py: a Streamlit script that is executed from   *)
(* top to bottom once per page load ("run").  Coordinates are integers in  *)
(* units of 0.0001 degree, so 0.05 degree is 500 and 0.01 degree is 100.   *)
(* The module `random` is a deterministic generator whose only source of   *)
(* nondeterminism is its seed; it is modelled as a small linear            *)
(* congruential generator with a nondeterministic seed.                    *)
(***************************************************************************)
EXTENDS Integers, Sequences, FiniteSets

\* ---------------------------------------------------------------- bounds
\* number of runs (page loads) of one server process that are explored
MaxRuns == 2
\* number of distinct seeds of the random generator
NumSeeds == 3
\* number of grid steps a uniform draw is resolved to
GridN == 10

\* ------------------------------------------------------ program constants
base_lat == 241477
base_lon == 1206733
NumRows == 100
Spread == 500
Margin == 100
RadiusLow == 5
RadiusHigh == 8

\* the risk labels of lines 30, 33 and 36, transliterated to ASCII
RiskHigh == "high risk (5 or more)"
RiskMedium == "caution (2-4)"
RiskLow == "occurred once (1)"

\* Python's None, and the falsy empty values of variables not yet assigned
None == << >>

\* st.cache_data's store for load_data (no arguments, hence a single entry)
EmptyCache == [present |-> FALSE, value |-> << >>]

VARIABLES
    pc,               \* position of the script within the current run
    runs,             \* runs finished so far
    cache,            \* st.cache_data entry of load_data; survives runs
    genCount,         \* how many times the body of load_data has executed
    generated,        \* the body of load_data executed in the current run
    df_accidents,     \* the table this run got from load_data()
    run_btn, start_location, end_location,
    start_coords, end_coords,
    geo_log,          \* geocoder invocations of this run, in order
    m,                \* children of the folium map, in insertion order
    nearby_accidents, \* index labels of the rows kept by the filter
    shown,            \* st.success / st.warning / st.error of this run
    rendered,         \* the map handed to st_folium
    renderCalls,      \* invocations of st_folium in this run
    chart             \* the bar chart data of this run

vars == << pc, runs, cache, genCount, generated, df_accidents, run_btn,
           start_location, end_location, start_coords, end_coords, geo_log,
           m, nearby_accidents, shown, rendered, renderCalls, chart >>

\* ------------------------------------------------------------- load_data
\* the generator behind random.uniform / random.choices: a multiplicative
\* congruential generator; Draw(seed, k) is its k-th output after seeding
RECURSIVE PowMod(_, _, _)
PowMod(g, k, p) ==
    IF k = 0 THEN 1
    ELSE LET h == PowMod(g, k \div 2, p)
             sq == (h * h) % p
         IN  IF k % 2 = 0 THEN sq ELSE (sq * g) % p

Draw(seed, k) == (seed * PowMod(75, k, 32749)) % 32749

\* faulty variant of Uniform: the draw is scaled over one grid step too many
UniformWide(r, a, b) == a + ((b - a) * (r % (GridN + 2))) \div GridN

\* random.uniform(a, b) == a + (b - a) * random(), random() resolved to GridN steps
Uniform(r, a, b) == a + ((b - a) * (r % (GridN + 1))) \div GridN

\* random.choices([1, 3, 6], weights=[0.5, 0.3, 0.2])[0]: bisect of the
\* cumulative weights 0.5, 0.8, 1.0 at random(), taken in tenths
Choices(r) ==
    LET u == r % 10
    IN  IF u < 5 THEN 1 ELSE IF u < 8 THEN 3 ELSE 6

\* faulty variant of Classify: the two thresholds are tested in the wrong order
ClassifySwapped(count) ==
    IF count >= 2 THEN [color |-> "orange", risk |-> RiskMedium]
    ELSE IF count >= 5 THEN [color |-> "red", risk |-> RiskHigh]
    ELSE [color |-> "green", risk |-> RiskLow]


Classify(count) ==
    IF count >= 5 THEN [color |-> "red", risk |-> RiskHigh]
    ELSE IF count >= 2 THEN [color |-> "orange", risk |-> RiskMedium]
    ELSE [color |-> "green", risk |-> RiskLow]

MakeRow(lat, lon, count) ==
    [lat |-> lat, lon |-> lon, count |-> count,
     color |-> Classify(count).color, risk |-> Classify(count).risk]

\* one iteration of the loop of load_data: the i-th row takes three draws
GenRow(seed, i) ==
    LET lat == base_lat + Uniform(Draw(seed, 3 * i - 2), -Spread, Spread)
        lon == base_lon + Uniform(Draw(seed, 3 * i - 1), -Spread, Spread)
        count == Choices(Draw(seed, 3 * i))
    IN  MakeRow(lat, lon, count)

\* the body of load_data for one seed of the generator
load_data(seed) == [i \in 1 .. NumRows |-> GenRow(seed, i)]

Seeds == 1 .. NumSeeds


\* ------------------------------------------------------ sidebar and inputs
\* what st.text_input can return: the empty text or some address
Texts == {"", "station", "university"}

\* the sidebar legend: the counts each marker colour is said to stand for
Legend(color) ==
    IF color = "red" THEN {c \in 0 .. 10 : c >= 5}
    ELSE IF color = "orange" THEN 2 .. 4
    ELSE IF color = "green" THEN {1}
    ELSE {}

\* --------------------------------------------------------- get_coordinates
\* places the geocoding service may answer with: three within the hotspot
\* area and one far outside it
Places == { << base_lat, base_lon >>,
            << base_lat + 200, base_lon - 300 >>,
            << base_lat - 400, base_lon + 400 >>,
            << base_lat + 3000, base_lon + 3000 >> }

\* what geolocator.geocode can do: answer with a location, answer None,
\* raise GeocoderTimedOut, or raise another geopy error (GeocoderUnavailable,
\* GeocoderRateLimited, ...: GeocoderServiceError and its other subclasses)
GeocodeAnswers ==
    [kind : {"location"}, at : Places]
        \cup { [kind |-> "nothing", at |-> None],
               [kind |-> "GeocoderTimedOut", at |-> None],
               [kind |-> "GeocoderServiceError", at |-> None] }

\* get_coordinates for one answer of the service: the value returned, or
\* the exception that leaves the function
get_coordinates(answer) ==
    IF answer.kind = "location" THEN [raised |-> FALSE, value |-> answer.at]
    ELSE IF answer.kind = "nothing" THEN [raised |-> FALSE, value |-> None]
    ELSE IF answer.kind = "GeocoderTimedOut" THEN [raised |-> FALSE, value |-> None]
    ELSE [raised |-> TRUE, value |-> None]

\* Python truthiness of what get_coordinates returns (None or a 2-tuple)
Truthy(x) == x # None

\* faulty variant of CircleMarker: only the red rows are drawn large
CircleMarkerRedOnly(row) ==
    [kind |-> "CircleMarker", location |-> << row.lat, row.lon >>,
     radius |-> IF row.color = "red" THEN RadiusHigh ELSE RadiusLow,
     color |-> row.color, fill_color |-> row.color,
     count |-> row.count, risk |-> row.risk]

\* ------------------------------------------------------------ map contents
CircleMarker(row) ==
    [kind |-> "CircleMarker", location |-> << row.lat, row.lon >>,
     radius |-> IF row.color = "green" THEN RadiusLow ELSE RadiusHigh,
     color |-> row.color, fill_color |-> row.color,
     count |-> row.count, risk |-> row.risk]

Marker(coords, tooltip) ==
    [kind |-> "Marker", location |-> coords, tooltip |-> tooltip]

PolyLine(locations) == [kind |-> "PolyLine", locations |-> locations]

FitBounds(bounds) == [kind |-> "FitBounds", bounds |-> bounds]

\* ------------------------------------------------------ bounding-box filter
Min(a, b) == IF a <= b THEN a ELSE b
Max(a, b) == IF a >= b THEN a ELSE b

\* faulty variant of Between: inclusive="neither"
BetweenExclusive(x, left, right) == left < x /\ x < right

\* Series.between(left, right), inclusive="both" by default
Between(x, left, right) == left <= x /\ x <= right

\* the index labels of df[lat.between(...) & lon.between(...)]
Nearby(df, s, e) ==
    LET min_lat == Min(s[1], e[1])
        max_lat == Max(s[1], e[1])
        min_lon == Min(s[2], e[2])
        max_lon == Max(s[2], e[2])
    IN  {i \in DOMAIN df :
            /\ Between(df[i].lat, min_lat - Margin, max_lat + Margin)
            /\ Between(df[i].lon, min_lon - Margin, max_lon + Margin)}

\* len(nearby_accidents[nearby_accidents['count'] >= 5])
HighRisk(df, idx) == {i \in idx : df[i].count >= 5}

\* faulty variant of Messages: the warning is shown without the emptiness test
MessagesAlwaysWarn(df, near, from, to) ==
    << [kind |-> "success", from |-> from, to |-> to],
       [kind |-> "warning", total |-> Cardinality(near),
        high |-> Cardinality(HighRisk(df, near))] >>

\* st.success, then st.warning "if not nearby_accidents.empty"
Messages(df, near, from, to) ==
    LET success == [kind |-> "success", from |-> from, to |-> to]
        warning == [kind |-> "warning", total |-> Cardinality(near),
                    high |-> Cardinality(HighRisk(df, near))]
    IN  IF near # {} THEN << success, warning >> ELSE << success >>

\* df['risk'].value_counts(): the labels that occur, with their frequencies
ValueCounts(df) ==
    {<< r, Cardinality({i \in DOMAIN df : df[i].risk = r}) >> :
        r \in {df[i].risk : i \in DOMAIN df}}

\* ------------------------------------------------------------------ state
Init ==
    /\ pc = "idle"
    /\ runs = 0
    /\ cache = EmptyCache
    /\ genCount = 0
    /\ generated = FALSE
    /\ df_accidents = << >>
    /\ run_btn = FALSE
    /\ start_location = ""
    /\ end_location = ""
    /\ start_coords = None
    /\ end_coords = None
    /\ geo_log = << >>
    /\ m = << >>
    /\ nearby_accidents = {}
    /\ shown = << >>
    /\ rendered = << >>
    /\ renderCalls = 0
    /\ chart = {}

\* a page load starts the script from its first line
StartRun ==
    /\ pc = "idle"
    /\ runs < MaxRuns
    /\ pc' = "load"
    /\ UNCHANGED << runs, cache, genCount, generated, df_accidents, run_btn,
                    start_location, end_location, start_coords, end_coords,
                    geo_log, m, nearby_accidents, shown, rendered,
                    renderCalls, chart >>

\* df_accidents = load_data() when st.cache_data holds no entry
LoadDataMiss ==
    /\ pc = "load"
    /\ ~cache.present
    /\ \E seed \in Seeds :
          /\ cache' = [present |-> TRUE, value |-> load_data(seed)]
          /\ df_accidents' = load_data(seed)
    /\ genCount' = genCount + 1
    /\ generated' = TRUE
    /\ pc' = "sidebar"
    /\ UNCHANGED << runs, run_btn, start_location, end_location, start_coords,
                    end_coords, geo_log, m, nearby_accidents, shown, rendered,
                    renderCalls, chart >>

\* df_accidents = load_data() when st.cache_data holds the entry
LoadDataHit ==
    /\ pc = "load"
    /\ cache.present
    /\ df_accidents' = cache.value
    /\ pc' = "sidebar"
    /\ UNCHANGED << runs, cache, genCount, generated, run_btn, start_location,
                    end_location, start_coords, end_coords, geo_log, m,
                    nearby_accidents, shown, rendered, renderCalls, chart >>

\* faulty variant of LoadData: load_data without memoization
LoadDataUncached ==
    /\ pc = "load"
    /\ \E seed \in Seeds :
          /\ cache' = [present |-> TRUE, value |-> load_data(seed)]
          /\ df_accidents' = load_data(seed)
    /\ genCount' = genCount + 1
    /\ generated' = TRUE
    /\ pc' = "sidebar"
    /\ UNCHANGED << runs, run_btn, start_location, end_location, start_coords,
                    end_coords, geo_log, m, nearby_accidents, shown, rendered,
                    renderCalls, chart >>

LoadData == LoadDataMiss \/ LoadDataHit

\* the sidebar widgets hand the script the user's texts and the button state
Sidebar ==
    /\ pc = "sidebar"
    /\ \E b \in BOOLEAN, s \in Texts, e \in Texts :
          /\ run_btn' = b
          /\ start_location' = s
          /\ end_location' = e
    /\ pc' = "markers"
    /\ UNCHANGED << runs, cache, genCount, generated, df_accidents,
                    start_coords, end_coords, geo_log, m, nearby_accidents,
                    shown, rendered, renderCalls, chart >>

\* m = folium.Map(...) and the loop adding one CircleMarker per row
HotspotMarkers ==
    /\ pc = "markers"
    /\ m' = [i \in DOMAIN df_accidents |-> CircleMarker(df_accidents[i])]
    /\ pc' = "query"
    /\ UNCHANGED << runs, cache, genCount, generated, df_accidents, run_btn,
                    start_location, end_location, start_coords, end_coords,
                    geo_log, nearby_accidents, shown, rendered, renderCalls,
                    chart >>

\* faulty variant of Submitted: the texts are not tested
SubmittedButtonOnly == run_btn

\* if run_btn and start_location and end_location
Submitted == run_btn /\ start_location # "" /\ end_location # ""

QueryGate ==
    /\ pc = "query"
    /\ pc' = IF Submitted THEN "geo_start" ELSE "render"
    /\ UNCHANGED << runs, cache, genCount, generated, df_accidents, run_btn,
                    start_location, end_location, start_coords, end_coords,
                    geo_log, m, nearby_accidents, shown, rendered,
                    renderCalls, chart >>

\* faulty variant of GeocodeStart: an empty or timed-out answer is asked for again
GeocodeStartRetry ==
    /\ pc = "geo_start"
    /\ \E answer \in GeocodeAnswers :
          LET r == get_coordinates(answer)
          IN  /\ geo_log' = Append(geo_log, [arg |-> "start",
                                             address |-> start_location,
                                             answer |-> answer.kind])
              /\ start_coords' = r.value
              /\ pc' = IF r.raised THEN "crashed"
                       ELSE IF r.value = None /\ Len(geo_log) < 2 THEN "geo_start"
                       ELSE "geo_end"
    /\ UNCHANGED << runs, cache, genCount, generated, df_accidents, run_btn,
                    start_location, end_location, end_coords, m,
                    nearby_accidents, shown, rendered, renderCalls, chart >>

\* start_coords = get_coordinates(start_location)
GeocodeStart ==
    /\ pc = "geo_start"
    /\ \E answer \in GeocodeAnswers :
          LET r == get_coordinates(answer)
          IN  /\ geo_log' = Append(geo_log, [arg |-> "start",
                                             address |-> start_location,
                                             answer |-> answer.kind])
              /\ start_coords' = r.value
              /\ pc' = IF r.raised THEN "crashed" ELSE "geo_end"
    /\ UNCHANGED << runs, cache, genCount, generated, df_accidents, run_btn,
                    start_location, end_location, end_coords, m,
                    nearby_accidents, shown, rendered, renderCalls, chart >>

\* end_coords = get_coordinates(end_location)
GeocodeEnd ==
    /\ pc = "geo_end"
    /\ \E answer \in GeocodeAnswers :
          LET r == get_coordinates(answer)
          IN  /\ geo_log' = Append(geo_log, [arg |-> "end",
                                             address |-> end_location,
                                             answer |-> answer.kind])
              /\ end_coords' = r.value
              /\ pc' = IF r.raised THEN "crashed" ELSE "report"
    /\ UNCHANGED << runs, cache, genCount, generated, df_accidents, run_btn,
                    start_location, end_location, start_coords, m,
                    nearby_accidents, shown, rendered, renderCalls, chart >>

\* the branch "if start_coords and end_coords": markers, line, messages
ReportFound ==
    /\ pc = "report"
    /\ Truthy(start_coords) /\ Truthy(end_coords)
    /\ m' = m \o << Marker(start_coords, "start"),
                    Marker(end_coords, "end"),
                    PolyLine(<< start_coords, end_coords >>),
                    FitBounds(<< start_coords, end_coords >>) >>
    /\ LET near == Nearby(df_accidents, start_coords, end_coords)
       IN  /\ nearby_accidents' = near
           /\ shown' = shown \o Messages(df_accidents, near, start_location,
                                         end_location)
    /\ pc' = "render"
    /\ UNCHANGED << runs, cache, genCount, generated, df_accidents, run_btn,
                    start_location, end_location, start_coords, end_coords,
                    geo_log, rendered, renderCalls, chart >>

\* the else branch: st.error
ReportNotFound ==
    /\ pc = "report"
    /\ ~(Truthy(start_coords) /\ Truthy(end_coords))
    /\ shown' = Append(shown, [kind |-> "error"])
    /\ pc' = "render"
    /\ UNCHANGED << runs, cache, genCount, generated, df_accidents, run_btn,
                    start_location, end_location, start_coords, end_coords,
                    geo_log, m, nearby_accidents, rendered, renderCalls,
                    chart >>

Report == ReportFound \/ ReportNotFound

\* st_folium(m, width=1200, height=600)
Render ==
    /\ pc = "render"
    /\ rendered' = m
    /\ renderCalls' = renderCalls + 1
    /\ pc' = "charts"
    /\ UNCHANGED << runs, cache, genCount, generated, df_accidents, run_btn,
                    start_location, end_location, start_coords, end_coords,
                    geo_log, m, nearby_accidents, shown, chart >>

\* st.bar_chart(df_accidents['risk'].value_counts()) and the data overview
Charts ==
    /\ pc = "charts"
    /\ chart' = ValueCounts(df_accidents)
    /\ pc' = "done"
    /\ UNCHANGED << runs, cache, genCount, generated, df_accidents, run_btn,
                    start_location, end_location, start_coords, end_coords,
                    geo_log, m, nearby_accidents, shown, rendered,
                    renderCalls >>

\* faulty variant of EndRun: the table is dropped with the rest of the run's state
EndRunDropsTable ==
    /\ pc \in {"done", "crashed"}
    /\ pc' = "idle"
    /\ runs' = runs + 1
    /\ cache' = EmptyCache
    /\ generated' = FALSE
    /\ df_accidents' = << >>
    /\ run_btn' = FALSE
    /\ start_location' = ""
    /\ end_location' = ""
    /\ start_coords' = None
    /\ end_coords' = None
    /\ geo_log' = << >>
    /\ m' = << >>
    /\ nearby_accidents' = {}
    /\ shown' = << >>
    /\ rendered' = << >>
    /\ renderCalls' = 0
    /\ chart' = {}
    /\ UNCHANGED genCount

\* the script has ended (normally, or by an uncaught exception): its module
\* globals are dropped; only st.cache_data's entry is kept for the next run
EndRun ==
    /\ pc \in {"done", "crashed"}
    /\ pc' = "idle"
    /\ runs' = runs + 1
    /\ generated' = FALSE
    /\ df_accidents' = << >>
    /\ run_btn' = FALSE
    /\ start_location' = ""
    /\ end_location' = ""
    /\ start_coords' = None
    /\ end_coords' = None
    /\ geo_log' = << >>
    /\ m' = << >>
    /\ nearby_accidents' = {}
    /\ shown' = << >>
    /\ rendered' = << >>
    /\ renderCalls' = 0
    /\ chart' = {}
    /\ UNCHANGED << cache, genCount >>

Next ==
    \/ StartRun
    \/ LoadData
    \/ Sidebar
    \/ HotspotMarkers
    \/ QueryGate
    \/ GeocodeStart
    \/ GeocodeEnd
    \/ Report
    \/ Render
    \/ Charts
    \/ EndRun

Spec == Init /\ [][Next]_vars

\* ================================================================ claims
\* the script is past "df_accidents = load_data()" in the current run
Loaded == pc \notin {"idle", "load"}

\* the script is past st_folium in the current run
Rendered == pc \in {"charts", "done"}

\* both addresses were answered with a location in the current run
BothFound ==
    /\ Len(geo_log) = 2
    /\ geo_log[1].answer = "location"
    /\ geo_log[2].answer = "location"

\* some geocoding call of the current run raised or answered nothing
GeocodingFailed == \E k \in DOMAIN geo_log : geo_log[k].answer # "location"

\* row lies in the box spanned by the points s and e, widened by 0.01 degree
InBox(row, s, e) ==
    /\ (row.lat >= s[1] - 100 \/ row.lat >= e[1] - 100)
    /\ (row.lat <= s[1] + 100 \/ row.lat <= e[1] + 100)
    /\ (row.lon >= s[2] - 100 \/ row.lon >= e[2] - 100)
    /\ (row.lon <= s[2] + 100 \/ row.lon <= e[2] + 100)

\* row lies on an edge of that box
OnEdge(row, s, e) ==
    /\ InBox(row, s, e)
    /\ \/ row.lat + 100 \in {s[1], e[1]} /\ row.lat + 100 <= s[1] /\ row.lat + 100 <= e[1]
       \/ row.lat - 100 \in {s[1], e[1]} /\ row.lat - 100 >= s[1] /\ row.lat - 100 >= e[1]
       \/ row.lon + 100 \in {s[2], e[2]} /\ row.lon + 100 <= s[2] /\ row.lon + 100 <= e[2]
       \/ row.lon - 100 \in {s[2], e[2]} /\ row.lon - 100 >= s[2] /\ row.lon - 100 >= e[2]

KindsShown == {shown[k].kind : k \in DOMAIN shown}
KindsOnMap(map) == {map[k].kind : k \in DOMAIN map}
Circles(map) == SelectSeq(map, LAMBDA c : c.kind = "CircleMarker")

\* ---------------------------------------------------------------------- C1
\* C1: every row of the table is red with the high label exactly when its
\* count is >= 5, orange with the medium label exactly when its count is 2..4
\* and green with the low label exactly when its count is 1; each row is in
\* exactly one of the three buckets, the one the sidebar legend names.
C1_Classification ==
    \A i \in DOMAIN df_accidents :
        LET row == df_accidents[i]
            red == row.color = "red" /\ row.risk = RiskHigh
            orange == row.color = "orange" /\ row.risk = RiskMedium
            green == row.color = "green" /\ row.risk = RiskLow
        IN  /\ red <=> row.count >= 5
            /\ orange <=> (row.count >= 2 /\ row.count <= 4)
            /\ green <=> row.count = 1
            /\ Cardinality({b \in {<< 1, red >>, << 2, orange >>, << 3, green >>} : b[2]}) = 1
            /\ row.count \in Legend(row.color)

\* a loaded table that holds rows of all three buckets
C1_Witness ==
    /\ pc = "sidebar"
    /\ \A c \in {"red", "orange", "green"} :
          \E i \in DOMAIN df_accidents : df_accidents[i].color = c

\* ---------------------------------------------------------------------- C2
\* C2: after a query whose two addresses were found, the nearby set holds
\* exactly the rows whose lat and lon lie in the closed box around start and
\* end widened by 0.01 degree; it is a subset of the table and is the set the
\* filter yields with start and end swapped.
C2_BoundingBox ==
    (pc \in {"render", "charts", "done"} /\ BothFound) =>
        /\ \A i \in DOMAIN df_accidents :
              i \in nearby_accidents <=> InBox(df_accidents[i], start_coords, end_coords)
        /\ nearby_accidents \subseteq DOMAIN df_accidents
        /\ nearby_accidents = Nearby(df_accidents, end_coords, start_coords)

\* a filtered query with distinct endpoints that keeps some rows, drops
\* others, and keeps a row lying on an edge of the box
C2_Witness ==
    /\ pc = "render"
    /\ BothFound
    /\ start_coords[1] < end_coords[1]
    /\ start_coords[2] > end_coords[2]
    /\ nearby_accidents # {}
    /\ nearby_accidents # DOMAIN df_accidents
    /\ \E i \in nearby_accidents : OnEdge(df_accidents[i], start_coords, end_coords)

\* ---------------------------------------------------------------------- C3
\* C3: a submitted run in which a geocoding call raised or answered nothing
\* ends having shown the error message, with no start marker, end marker or
\* line on the map, without the success message or the warning, and with the
\* map rendered.
C3_FailureReported ==
    (pc \in {"done", "crashed"} /\ GeocodingFailed) =>
        /\ "error" \in KindsShown
        /\ "success" \notin KindsShown
        /\ "warning" \notin KindsShown
        /\ "Marker" \notin KindsOnMap(m)
        /\ "PolyLine" \notin KindsOnMap(m)
        /\ renderCalls = 1
        /\ rendered = m

\* ---------------------------------------------------------------------- C4
\* the map and messages of a run whose two addresses were found, apart from
\* the hotspot report
C4_PathDrawn ==
    /\ SelectSeq(rendered, LAMBDA c : c.kind = "Marker")
          = << [kind |-> "Marker", location |-> start_coords, tooltip |-> "start"],
               [kind |-> "Marker", location |-> end_coords, tooltip |-> "end"] >>
    /\ SelectSeq(rendered, LAMBDA c : c.kind = "PolyLine")
          = << [kind |-> "PolyLine", locations |-> << start_coords, end_coords >>] >>
    /\ Len(SelectSeq(shown, LAMBDA x : x.kind = "success")) = 1
    /\ "error" \notin KindsShown

\* the number of table rows in the box around the line
C4_InBoxCount ==
    Cardinality({i \in DOMAIN df_accidents :
                    InBox(df_accidents[i], start_coords, end_coords)})

\* C4 as stated: a run whose two addresses were found draws both markers and
\* the two-vertex line, shows the success message, and reports the number
\* of hotspots in the box, also when that number is 0.
C4_Original ==
    (Rendered /\ BothFound) =>
        /\ C4_PathDrawn
        /\ \E k \in DOMAIN shown :
              shown[k].kind = "warning" /\ shown[k].total = C4_InBoxCount

\* C4 amended: a run whose two addresses were found draws both markers and
\* the two-vertex line and shows the success message; it reports the number
\* of hotspots in the box (and how many of them have count >= 5) in one
\* warning when that number is at least 1, and shows no warning when it is 0.
C4_Amended ==
    (Rendered /\ BothFound) =>
        /\ C4_PathDrawn
        /\ SelectSeq(shown, LAMBDA x : x.kind = "warning")
              = IF C4_InBoxCount >= 1
                THEN << [kind |-> "warning", total |-> C4_InBoxCount,
                         high |-> Cardinality({i \in DOMAIN df_accidents :
                                     /\ InBox(df_accidents[i], start_coords, end_coords)
                                     /\ df_accidents[i].count >= 5})] >>
                ELSE << >>

\* a finished run with both addresses found and no hotspot in the box
C4_Witness ==
    /\ pc = "done"
    /\ BothFound
    /\ C4_InBoxCount = 0
    /\ "success" \in KindsShown

\* ---------------------------------------------------------------------- C5
\* C5 as stated: a run that reaches its end has invoked the geocoder once
\* and st_folium once.
C5_Original ==
    pc = "done" => (Len(geo_log) = 1 /\ renderCalls = 1)

\* C5 amended: st_folium is invoked at most once per run and exactly once in
\* a run that reaches the end of the script; the geocoder is invoked once per
\* address, not once per run: never in a run whose query is not submitted,
\* and first for the start and then for the end address in one whose query
\* is; no call is repeated.  A run ended by a geocoder error other than a
\* timeout stops at that call and never invokes st_folium.
C5_Amended ==
    /\ renderCalls <= 1
    /\ Len(geo_log) <= 2
    /\ \A k \in DOMAIN geo_log : geo_log[k].arg = IF k = 1 THEN "start" ELSE "end"
    /\ pc = "done" =>
          /\ renderCalls = 1
          /\ Len(geo_log) =
                IF run_btn /\ start_location # "" /\ end_location # "" THEN 2 ELSE 0
    /\ pc = "crashed" =>
          /\ renderCalls = 0
          /\ Len(geo_log) >= 1
          /\ geo_log[Len(geo_log)].answer = "GeocoderServiceError"

\* a finished run whose start address was answered with nothing and whose
\* end address was still geocoded, each once
C5_Witness ==
    /\ pc = "done"
    /\ Len(geo_log) = 2
    /\ geo_log[1].answer = "nothing"
    /\ geo_log[2].answer = "location"
    /\ renderCalls = 1

\* ---------------------------------------------------------------------- C6
\* C6: the body of load_data executes at most once over all runs; once the
\* cache holds the table no step changes it; the table a run works on is the
\* cached one from load_data to the end of the run; and between runs nothing
\* but the cached table is left of a run.
C6_Memoized ==
    /\ [](genCount <= 1)
    /\ [][cache.present => cache' = cache]_vars
    /\ [](Loaded => (cache.present /\ df_accidents = cache.value))
    /\ [](pc = "idle" =>
            /\ df_accidents = << >> /\ m = << >> /\ shown = << >>
            /\ geo_log = << >> /\ rendered = << >> /\ nearby_accidents = {}
            /\ start_coords = None /\ end_coords = None /\ chart = {})

\* a later run, with a found query, that got its table from the cache
C6_Witness ==
    /\ runs >= 1
    /\ pc = "done"
    /\ BothFound
    /\ ~generated
    /\ genCount = 1
    /\ Len(df_accidents) = NumRows
    /\ df_accidents = cache.value

\* ---------------------------------------------------------------------- C7
\* C7 as stated: the table is generated in each run and discarded when the
\* run ends, so none is held between runs.
C7_Original ==
    /\ Loaded => generated
    /\ pc = "idle" => ~cache.present

\* C7 amended: the table is randomly generated in the first run only; it is
\* kept when that run ends and is the table every later run works on.
C7_Amended ==
    /\ Loaded => (generated <=> runs = 0)
    /\ runs >= 1 => cache.present
    /\ (Loaded /\ runs >= 1) => df_accidents = cache.value

\* between two runs the table of the first run is still held
C7_Witness ==
    /\ pc = "idle"
    /\ runs = 1
    /\ cache.present
    /\ Len(cache.value) = NumRows

\* ---------------------------------------------------------------------- C8
\* C8: the table of a run has exactly 100 rows; every row has lat within
\* 0.05 degree of 24.1477 and lon within 0.05 degree of 120.6733, hence
\* lat in [-90, 90] and lon in [-180, 180], and a count in {1, 3, 6}.
C8_TableInvariant ==
    Loaded =>
        /\ Len(df_accidents) = 100
        /\ \A i \in DOMAIN df_accidents :
              LET row == df_accidents[i]
              IN  /\ row.lat >= 241477 - 500 /\ row.lat <= 241477 + 500
                  /\ row.lon >= 1206733 - 500 /\ row.lon <= 1206733 + 500
                  /\ row.lat >= -900000 /\ row.lat <= 900000
                  /\ row.lon >= -1800000 /\ row.lon <= 1800000
                  /\ row.count \in {1, 3, 6}

\* a loaded table with rows at both extremes of lat and lon and all counts
C8_Witness ==
    /\ pc = "sidebar"
    /\ \A c \in {1, 3, 6} : \E i \in DOMAIN df_accidents : df_accidents[i].count = c
    /\ \E i \in DOMAIN df_accidents : df_accidents[i].lat = 241477 - 500
    /\ \E i \in DOMAIN df_accidents : df_accidents[i].lat = 241477 + 500
    /\ \E i \in DOMAIN df_accidents : df_accidents[i].lon = 1206733 - 500
    /\ \E i \in DOMAIN df_accidents : df_accidents[i].lon = 1206733 + 500

\* ---------------------------------------------------------------------- C9
\* C9: a geocoding call, a message, or a marker or line other than the
\* hotspot circles exists only in a run whose button was pressed with both
\* texts non-empty.
C9_QueryGate ==
    (\/ geo_log # << >>
     \/ shown # << >>
     \/ KindsOnMap(m) \ {"CircleMarker"} # {}
     \/ KindsOnMap(rendered) \ {"CircleMarker"} # {}
     \/ pc \in {"geo_start", "geo_end", "report", "crashed"})
        => (run_btn /\ start_location # "" /\ end_location # "")

\* a finished run with the button pressed but an empty start text
C9_Witness ==
    /\ pc = "done"
    /\ run_btn
    /\ start_location = ""
    /\ end_location # ""
    /\ geo_log = << >>
    /\ shown = << >>
    /\ renderCalls = 1

\* --------------------------------------------------------------------- C10
\* the circle the marker loop draws for a row
C10_Circle(c, row) ==
    /\ c.kind = "CircleMarker"
    /\ c.location = << row.lat, row.lon >>
    /\ c.color = row.color
    /\ c.fill_color = row.color
    /\ c.radius = IF row.color = "green" THEN 5 ELSE 8

\* C10: from the marker loop on, the first children of the map are one
\* circle per table row, in row order, at the row's position, in the row's
\* colour, with radius 5 for a green row and 8 otherwise, and nothing after
\* them is a circle; the rendered map carries exactly these circles.
C10_HotspotMarkers ==
    /\ pc \in {"query", "geo_start", "geo_end", "report", "render", "charts", "done", "crashed"} =>
          /\ Len(m) >= Len(df_accidents)
          /\ \A k \in DOMAIN m :
                IF k <= Len(df_accidents)
                THEN C10_Circle(m[k], df_accidents[k])
                ELSE m[k].kind # "CircleMarker"
    /\ Rendered =>
          /\ Len(Circles(rendered)) = Len(df_accidents)
          /\ \A k \in DOMAIN df_accidents :
                C10_Circle(Circles(rendered)[k], df_accidents[k])

\* a rendered map of a found query: all circles, of both radii, and the
\* four elements the query block added
C10_Witness ==
    /\ pc = "done"
    /\ BothFound
    /\ Len(rendered) = NumRows + 4
    /\ \E k \in DOMAIN rendered : rendered[k].kind = "CircleMarker" /\ rendered[k].radius = 5
    /\ \E k \in DOMAIN rendered :
          rendered[k].kind = "CircleMarker" /\ rendered[k].color = "orange"

====
